---- MODULE Spec2Model ----
(***************************************************************************)
(* A model of rebuild (src/src/main.rs): the command-chain parser, the     *)
(* path substitution, the chain executor, and main() with its event loop,  *)
(* the asynchronous dispatch and the manager (reaper) thread.              *)
(*                                                                         *)
(* A Rust String is a sequence of one-character strings, so that           *)
(* str::replace and the comparison of a token with ";", "&&" and "||"      *)
(* are computed on characters: "{}" is <<"{", "}">>, "" is <<>>.           *)
(***************************************************************************)
EXTENDS Naturals, Sequences, FiniteSets, TLC

VARIABLES
    opt,            \* Opt: the command line options of this run
    main_pc,        \* where main() is
    rebuild_config, \* the result of RebuildConfig::new in main
    trigger,        \* the PathBuf handed to RebuildConfig::set_filename
    resolved,       \* what RebuildConfig::set_filename returned
    run,            \* one call of rebuild_sync: its config and its position
    log,            \* the commands that call has executed, with their outcomes
    rebuilds,       \* the calls of do_rebuild so far, in the order main made them
    thread_chan,    \* the channel (thread_tx, thread_rx) of ThreadHandleMessage
    manager,        \* the thread of prepare_manager_thread
    joined,         \* the handles the manager has joined, in order
    rx,             \* the channel of DebouncedEvent from the watcher to main
    emitted         \* how many events the watcher has sent

chain_vars == <<trigger, resolved, run, log>>
main_vars == <<rebuilds, thread_chan, manager, joined, rx, emitted>>
vars == <<opt, main_pc, rebuild_config, chain_vars, main_vars>>

(***************************************************************************)
(* Bounds of the model.                                                    *)
(***************************************************************************)
MaxTokens == 4
MaxExecTokens == 5
MaxArgLen == 4
MaxRebuilds == 2
MaxEvents == 3

(***************************************************************************)
(* Strings.                                                                *)
(***************************************************************************)
SEMI == <<";">>
ANDAND == <<"&", "&">>
OROR == <<"|", "|">>
PLACEHOLDER == <<"{", "}">>

\* The sequences over S of length 1..n.
SeqsUpTo(S, n) == UNION {[1..k -> S] : k \in 1..n}

\* The sequences over S of length 0..n.
SeqsFrom0(S, n) == UNION {[1..k -> S] : k \in 0..n}

(***************************************************************************)
(* enum ProceedIf                                                          *)
(***************************************************************************)
ProceedIf == {"Any", "Success", "Failure"}

(***************************************************************************)
(* SimpleCommand::new: Err(EmptyCommand) for an empty command line, else   *)
(* the first token is the command and the rest are its arguments.          *)
(***************************************************************************)
SimpleCommand_new(command_line, proceed_if) ==
    IF Len(command_line) = 0
    THEN [ok |-> FALSE, err |-> "EmptyCommand"]
    ELSE [ok |-> TRUE,
          cmd |-> [command |-> command_line[1],
                   args |-> SubSeq(command_line, 2, Len(command_line)),
                   proceed_if |-> proceed_if]]

(***************************************************************************)
(* The body of each separator branch of RebuildConfig::new:                *)
(*   match SimpleCommand::new(&single_command, p) {                        *)
(*       Ok(cmd) => commands.push(cmd), Err(e) => return Err(e) }          *)
(***************************************************************************)
\* A variant against which the properties are tested: an empty buffer is skipped.
CloseCommand_SkipEmpty(commands, single_command, proceed_if) ==
    IF Len(single_command) = 0
    THEN [ok |-> TRUE, commands |-> commands]
    ELSE [ok |-> TRUE,
          commands |-> Append(commands,
                              SimpleCommand_new(single_command, proceed_if).cmd)]

CloseCommand(commands, single_command, proceed_if) ==
    LET r == SimpleCommand_new(single_command, proceed_if)
    IN  IF r.ok
        THEN [ok |-> TRUE, commands |-> Append(commands, r.cmd)]
        ELSE [ok |-> FALSE, err |-> r.err]

(***************************************************************************)
(* The end of RebuildConfig::new: a non-empty buffer is closed as a last   *)
(* command with ProceedIf::Any; an empty one is left alone.                *)
(***************************************************************************)
\* A variant against which the properties are tested: the last command gets ProceedIf::Success.
ParseEnd_LastSuccess(commands, single_command, verbatim) ==
    IF Len(single_command) # 0
    THEN LET r == CloseCommand(commands, single_command, "Success")
         IN  IF r.ok
             THEN [ok |-> TRUE, commands |-> r.commands, verbatim |-> verbatim]
             ELSE r
    ELSE [ok |-> TRUE, commands |-> commands, verbatim |-> verbatim]

ParseEnd(commands, single_command, verbatim) ==
    IF Len(single_command) # 0
    THEN LET r == CloseCommand(commands, single_command, "Any")
         IN  IF r.ok
             THEN [ok |-> TRUE, commands |-> r.commands, verbatim |-> verbatim]
             ELSE r
    ELSE [ok |-> TRUE, commands |-> commands, verbatim |-> verbatim]

(***************************************************************************)
(* The loop of RebuildConfig::new over cmdline, from token k on, with the  *)
(* commands closed so far and the tokens of the command being read.        *)
(***************************************************************************)
RECURSIVE ParseLoop(_, _, _, _, _)
ParseLoop(cmdline, k, commands, single_command, verbatim) ==
    IF k > Len(cmdline)
    THEN ParseEnd(commands, single_command, verbatim)
    ELSE LET arg == cmdline[k]
             r == IF arg = SEMI
                  THEN CloseCommand(commands, single_command, "Any")
                  ELSE IF arg = ANDAND
                  THEN CloseCommand(commands, single_command, "Success")
                  ELSE IF arg = OROR
                  THEN CloseCommand(commands, single_command, "Failure")
                  ELSE [ok |-> TRUE, commands |-> commands]
         IN  IF arg = SEMI \/ arg = ANDAND \/ arg = OROR
             THEN IF r.ok
                  THEN ParseLoop(cmdline, k + 1, r.commands, <<>>, verbatim)
                  ELSE r
             ELSE ParseLoop(cmdline, k + 1, commands,
                            Append(single_command, arg), verbatim)

RebuildConfig_new(cmdline, verbatim) ==
    ParseLoop(cmdline, 1, <<>>, <<>>, verbatim)

(***************************************************************************)
(* str::replace(from, to): every non-overlapping match of from in s, found *)
(* from the left, is replaced by to; the replacement is not searched again.*)
(* from is never empty here.                                               *)
(***************************************************************************)
\* A variant against which the properties are tested: only the first match is replaced.
RECURSIVE str_replace_First(_, _, _)
str_replace_First(s, from, to) ==
    IF Len(s) < Len(from)
    THEN s
    ELSE IF SubSeq(s, 1, Len(from)) = from
         THEN to \o SubSeq(s, Len(from) + 1, Len(s))
         ELSE <<s[1]>> \o str_replace_First(SubSeq(s, 2, Len(s)), from, to)

RECURSIVE str_replace(_, _, _)
str_replace(s, from, to) ==
    IF Len(s) < Len(from)
    THEN s
    ELSE IF SubSeq(s, 1, Len(from)) = from
         THEN to \o str_replace(SubSeq(s, Len(from) + 1, Len(s)), from, to)
         ELSE <<s[1]>> \o str_replace(SubSeq(s, 2, Len(s)), from, to)

(***************************************************************************)
(* path.as_os_str().to_string_lossy().into_owned(): a PathBuf is a         *)
(* sequence of characters and of bytes that are not valid Unicode          *)
(* (INVALID_BYTE); each such byte becomes U+FFFD REPLACEMENT CHARACTER.    *)
(***************************************************************************)
INVALID_BYTE == "xFF"
REPLACEMENT_CHARACTER == "uFFFD"

to_string_lossy(path) ==
    [i \in 1..Len(path) |->
        IF path[i] = INVALID_BYTE THEN REPLACEMENT_CHARACTER ELSE path[i]]

(***************************************************************************)
(* SimpleCommand::set_filename: every argument, and only the arguments.    *)
(***************************************************************************)
SimpleCommand_set_filename(self, path) ==
    [self EXCEPT !.args =
        [i \in 1..Len(self.args) |-> str_replace(self.args[i], PLACEHOLDER, path)]]

(***************************************************************************)
(* RebuildConfig::set_filename: a clone of self, substituted unless        *)
(* self.verbatim.                                                          *)
(***************************************************************************)
\* A variant against which the properties are tested: --verbatim is not looked at.
RebuildConfig_set_filename_Always(self, path) ==
    [self EXCEPT !.commands =
        [i \in 1..Len(self.commands) |->
            SimpleCommand_set_filename(self.commands[i], to_string_lossy(path))]]

RebuildConfig_set_filename(self, path) ==
    IF ~self.verbatim
    THEN [self EXCEPT !.commands =
            [i \in 1..Len(self.commands) |->
                SimpleCommand_set_filename(self.commands[i], to_string_lossy(path))]]
    ELSE self

(***************************************************************************)
(* A call self.set_filename(path) as a whole: self is borrowed immutably   *)
(* (&self) and is what it was when the call returns; out, the substituted  *)
(* clone, is returned.                                                     *)
(***************************************************************************)
\* A variant against which the properties are tested: self itself is substituted.
set_filename_InPlace(self, path) ==
    [self |-> RebuildConfig_set_filename(self, path),
     out |-> RebuildConfig_set_filename(self, path)]

set_filename_call(self, path) ==
    [self |-> self, out |-> RebuildConfig_set_filename(self, path)]

(***************************************************************************)
(* SimpleCommand::execute.  outcome is what Command::status() gave:        *)
(* "spawn_error" for Err, "success" or "failure" for Ok(status).           *)
(***************************************************************************)
Outcomes == {"spawn_error", "success", "failure"}

\* A variant against which the properties are tested: a failed spawn counts as a failure.
execute_FailureOnSpawnError(self, outcome) ==
    IF outcome = "spawn_error"
    THEN self.proceed_if = "Failure"
    ELSE CASE self.proceed_if = "Any" -> TRUE
           [] self.proceed_if = "Success" -> outcome = "success"
           [] self.proceed_if = "Failure" -> outcome # "success"

\* A variant against which the properties are tested: the exit status is not looked at.
execute_IgnoreStatus(self, outcome) ==
    outcome # "spawn_error"

execute(self, outcome) ==
    IF outcome = "spawn_error"
    THEN FALSE
    ELSE CASE self.proceed_if = "Any" -> TRUE
           [] self.proceed_if = "Success" -> outcome = "success"
           [] self.proceed_if = "Failure" -> outcome # "success"

(***************************************************************************)
(* rebuild_sync(config): a call is [commands, i, phase]: phase "spawn"     *)
(* when commands[i] is the next to execute, "wait" while status() waits    *)
(* for the spawned child to exit, "done" when the loop is over.            *)
(***************************************************************************)
rebuild_sync_enter(config) ==
    IF Len(config.commands) = 0
    THEN [commands |-> config.commands, i |-> 0, phase |-> "done"]
    ELSE [commands |-> config.commands, i |-> 1, phase |-> "spawn"]

\* if !cmd.execute() { break; }, and the end of the for loop
rebuild_sync_next(call, ret) ==
    IF ret /\ call.i < Len(call.commands)
    THEN [call EXCEPT !.i = call.i + 1, !.phase = "spawn"]
    ELSE [call EXCEPT !.phase = "done"]

\* Command::status() spawns the child: Err(why), or the child runs.
rebuild_sync_spawn(call, spawned) ==
    IF spawned
    THEN [call EXCEPT !.phase = "wait"]
    ELSE rebuild_sync_next(call, execute(call.commands[call.i], "spawn_error"))

\* The child exits with outcome "success" or "failure".
rebuild_sync_exit(call, outcome) ==
    rebuild_sync_next(call, execute(call.commands[call.i], outcome))

(***************************************************************************)
(* Values of the variables a specification leaves alone.                   *)
(***************************************************************************)
NoConfig == [ok |-> FALSE, err |-> "unset"]
NoCall == [commands |-> <<>>, i |-> 0, phase |-> "none"]
NoPath == <<>>
NoManager == [pc |-> "unborn", handle |-> 0]

\* Nothing dispatched, no thread, no watcher.
MainIdle ==
    /\ rebuilds = <<>>
    /\ thread_chan = <<>>
    /\ manager = NoManager
    /\ joined = <<>>
    /\ rx = <<>>
    /\ emitted = 0

WatchedFile == <<"f">>

(***************************************************************************)
(* main, lines 209-217: RebuildConfig::new(opt.command, opt.verbatim);     *)
(* on Err the process exits with status 1.                                 *)
(***************************************************************************)
\* A variant against which the properties are tested: main goes on after Err.
MainParse_IgnoreError ==
    /\ main_pc = "parse"
    /\ rebuild_config' = RebuildConfig_new(opt.command, opt.verbatim)
    /\ main_pc' = "manager"
    /\ UNCHANGED <<opt, chain_vars, main_vars>>

MainParse ==
    /\ main_pc = "parse"
    /\ LET r == RebuildConfig_new(opt.command, opt.verbatim)
       IN  /\ rebuild_config' = r
           /\ main_pc' = IF r.ok THEN "manager" ELSE "exit1"
    /\ UNCHANGED <<opt, chain_vars, main_vars>>

(***************************************************************************)
(* The parser on every command line of at most MaxTokens tokens.  The      *)
(* tokens: the three separators, a word, the empty string, and "&" (a     *)
(* token that is not a separator though made of a separator's character).  *)
(***************************************************************************)
ParseTokens == {SEMI, ANDAND, OROR, <<"a">>, <<>>, <<"&">>}

InitParse ==
    /\ opt \in [command: SeqsUpTo(ParseTokens, MaxTokens),
                verbatim: BOOLEAN, init: {FALSE}, run_async: {FALSE},
                filename: {WatchedFile}]
    /\ main_pc = "parse"
    /\ rebuild_config = NoConfig
    /\ trigger = NoPath
    /\ resolved = NoConfig
    /\ run = NoCall
    /\ log = <<>>
    /\ MainIdle

SpecParse == InitParse /\ [][MainParse]_vars

(***************************************************************************)
(* RebuildConfig::set_filename applied to a parsed template, as main does  *)
(* for each rebuild (lines 224 and 245), for at most MaxRebuilds rebuilds  *)
(* in a row; each is recorded in rebuilds with the chain handed to         *)
(* rebuild_sync.  The arguments are every string of at most MaxArgLen      *)
(* characters over "{", "}" and "a"; the command name may itself hold the  *)
(* placeholder.  A path may be empty, hold the placeholder, or hold a byte *)
(* that is not valid Unicode.                                              *)
(***************************************************************************)
ArgStrings == SeqsFrom0({"{", "}", "a"}, MaxArgLen)
CommandNames == {<<"a">>, PLACEHOLDER}
SubstCmdlines ==
    {<<c, x>> : c \in CommandNames, x \in ArgStrings}
    \cup {<<c, PLACEHOLDER, x, s, d, PLACEHOLDER>> :
            c \in CommandNames, x \in {PLACEHOLDER, <<"a">>},
            s \in {ANDAND, OROR}, d \in CommandNames}
Paths == {WatchedFile, <<>>, PLACEHOLDER, <<"g", INVALID_BYTE>>}

InitSubst ==
    /\ opt \in [command: SubstCmdlines,
                verbatim: BOOLEAN, init: {FALSE}, run_async: {FALSE},
                filename: {WatchedFile}]
    /\ main_pc = "loop"
    /\ rebuild_config = RebuildConfig_new(opt.command, opt.verbatim)
    /\ trigger = NoPath
    /\ resolved = NoConfig
    /\ run = NoCall
    /\ log = <<>>
    /\ MainIdle

SetFilename(path) ==
    /\ rebuild_config.ok
    /\ Len(rebuilds) < MaxRebuilds
    /\ trigger' = path
    /\ LET call == set_filename_call(rebuild_config, path)
       IN  /\ rebuild_config' = call.self
           /\ resolved' = call.out
           /\ rebuilds' = Append(rebuilds, [path |-> path,
                                            async |-> opt.run_async,
                                            call |-> rebuild_sync_enter(call.out)])
    /\ UNCHANGED <<opt, main_pc, run, log, thread_chan, manager, joined, rx,
                   emitted>>

NextSubst == \E path \in Paths : SetFilename(path)

SpecSubst == InitSubst /\ [][NextSubst]_vars

(***************************************************************************)
(* rebuild_sync on every chain parsed from at most MaxExecTokens tokens,   *)
(* under every outcome of every command.  log is the history of the call:  *)
(* one entry per command handed to Command::status(), with its outcome     *)
(* ("running" until the child exits).                                      *)
(***************************************************************************)
ExecTokens == {SEMI, ANDAND, OROR, <<"a">>}
ExecCmdlines ==
    {c \in SeqsUpTo(ExecTokens, MaxExecTokens) : RebuildConfig_new(c, FALSE).ok}

InitExec ==
    /\ opt \in [command: ExecCmdlines,
                verbatim: {FALSE}, init: {FALSE}, run_async: {FALSE},
                filename: {WatchedFile}]
    /\ main_pc = "rebuild"
    /\ rebuild_config = RebuildConfig_new(opt.command, opt.verbatim)
    /\ trigger = WatchedFile
    /\ resolved = RebuildConfig_set_filename(rebuild_config, trigger)
    /\ run = rebuild_sync_enter(resolved)
    /\ log = <<>>
    /\ MainIdle

ExecSpawn(spawned) ==
    /\ run.phase = "spawn"
    /\ run' = rebuild_sync_spawn(run, spawned)
    /\ log' = Append(log, [i |-> run.i,
                           outcome |-> IF spawned THEN "running" ELSE "spawn_error"])
    /\ UNCHANGED <<opt, main_pc, rebuild_config, trigger, resolved, main_vars>>

ExecExit(outcome) ==
    /\ run.phase = "wait"
    /\ run' = rebuild_sync_exit(run, outcome)
    /\ log' = [log EXCEPT ![Len(log)].outcome = outcome]
    /\ UNCHANGED <<opt, main_pc, rebuild_config, trigger, resolved, main_vars>>

NextExec ==
    \/ \E spawned \in BOOLEAN : ExecSpawn(spawned)
    \/ \E outcome \in {"success", "failure"} : ExecExit(outcome)

SpecExec == InitExec /\ [][NextExec]_vars

(***************************************************************************)
(* Properties of the chain executor (SpecExec).                            *)
(***************************************************************************)
Finished == run.phase = "done"

\* The gating rule p lets the chain continue after a command that ended with o.
GateAllows(p, o) ==
    \/ p = "Any" /\ o \in {"success", "failure"}
    \/ p = "Success" /\ o = "success"
    \/ p = "Failure" /\ o = "failure"

\* C2: the commands run in order from the first, each at most once, and
\* command k+1 runs if and only if command k ran, was spawned and exited with a
\* status its gating rule allows (';' any, '&&' success, '||' failure).
C2_ExecutorFollowsGating ==
    /\ Len(log) <= Len(run.commands)
    /\ \A k \in 1..Len(log) : log[k].i = k
    /\ Finished => Len(log) >= 1
    /\ \A k \in 1..(Len(run.commands) - 1) :
        LET ran_next == k + 1 <= Len(log)
            allowed == /\ k <= Len(log)
                       /\ GateAllows(run.commands[k].proceed_if, log[k].outcome)
        IN  /\ ran_next => allowed
            /\ Finished /\ allowed => ran_next

C2_Witness ==
    /\ Finished
    /\ Len(run.commands) = 3
    /\ Len(log) = 3
    /\ run.commands[1].proceed_if = "Failure"
    /\ log[1].outcome = "failure"
    /\ run.commands[2].proceed_if = "Success"
    /\ log[2].outcome = "success"

\* C3: a command that could not be spawned ends the chain whatever its gating
\* rule is: it is the last command of the call, and it was attempted once.
C3_SpawnFailureEndsChain ==
    \A k \in 1..Len(log) :
        log[k].outcome = "spawn_error" =>
            /\ k = Len(log)
            /\ Finished
            /\ Cardinality({j \in 1..Len(log) : log[j].i = log[k].i}) = 1

C3_Witness ==
    /\ Finished
    /\ Len(log) = 2
    /\ Len(run.commands) = 3
    /\ log[2].outcome = "spawn_error"
    /\ run.commands[2].proceed_if = "Failure"

(***************************************************************************)
(* Properties of the parser (SpecParse).                                   *)
(***************************************************************************)
Parsed == main_pc # "parse"

IsSeparator(token) == token \in {SEMI, ANDAND, OROR}
LeadingSeparator(c) == Len(c) > 0 /\ IsSeparator(c[1])
TrailingSeparator(c) == Len(c) > 0 /\ IsSeparator(c[Len(c)])
DoubledSeparator(c) ==
    \E i \in 1..(Len(c) - 1) : IsSeparator(c[i]) /\ IsSeparator(c[i + 1])

\* C6: a command line that starts with a separator or holds two separators in
\* a row is rejected with EmptyCommand, and no chain is produced.
C6_LeadingOrDoubledRejected ==
    Parsed /\ (LeadingSeparator(opt.command) \/ DoubledSeparator(opt.command)) =>
        /\ ~rebuild_config.ok
        /\ rebuild_config.err = "EmptyCommand"
        /\ main_pc = "exit1"

C6_Witness ==
    /\ Parsed
    /\ ~LeadingSeparator(opt.command)
    /\ DoubledSeparator(opt.command)
    /\ ~rebuild_config.ok

\* C7: a command line that ends with a separator is rejected with EmptyCommand.
C7_TrailingRejected ==
    Parsed /\ TrailingSeparator(opt.command) =>
        /\ ~rebuild_config.ok
        /\ rebuild_config.err = "EmptyCommand"

\* The operator a gating rule was parsed from.
OperatorOf(proceed_if) ==
    CASE proceed_if = "Any" -> SEMI
      [] proceed_if = "Success" -> ANDAND
      [] proceed_if = "Failure" -> OROR

\* The tokens of commands[i..]: each command and its arguments, and its
\* operator after every command but the last.
RECURSIVE Flatten(_, _)
Flatten(commands, i) ==
    IF i > Len(commands)
    THEN <<>>
    ELSE <<commands[i].command>> \o commands[i].args
         \o (IF i < Len(commands)
             THEN <<OperatorOf(commands[i].proceed_if)>>
             ELSE <<>>)
         \o Flatten(commands, i + 1)

\* C8: a command line with no leading, trailing or doubled separator parses,
\* the parsed chain flattens back to it, and the last command has rule Any.
C8_ParseFlattenRoundTrip ==
    /\ Parsed
    /\ ~LeadingSeparator(opt.command)
    /\ ~TrailingSeparator(opt.command)
    /\ ~DoubledSeparator(opt.command)
    => /\ rebuild_config.ok
       /\ Len(rebuild_config.commands) >= 1
       /\ Flatten(rebuild_config.commands, 1) = opt.command
       /\ rebuild_config.commands[Len(rebuild_config.commands)].proceed_if = "Any"

C8_Witness ==
    /\ Parsed
    /\ Len(opt.command) = 4
    /\ opt.command[3] = OROR
    /\ ~IsSeparator(opt.command[1])
    /\ ~IsSeparator(opt.command[2])
    /\ ~IsSeparator(opt.command[4])
    /\ rebuild_config.ok
    /\ Len(rebuild_config.commands) = 2
    /\ Len(rebuild_config.commands[1].args) = 1

\* C9: every command of a parsed chain has a non-empty executable name.
C9_ExecutableNonEmpty ==
    Parsed /\ rebuild_config.ok =>
        \A i \in 1..Len(rebuild_config.commands) :
            Len(rebuild_config.commands[i].command) > 0

(***************************************************************************)
(* Properties of the substitution (SpecSubst).                             *)
(***************************************************************************)
Substituted == resolved.ok

\* s from character i on, with path in the place of each "{}".
RECURSIVE WithPath(_, _, _)
WithPath(s, i, path) ==
    IF i > Len(s)
    THEN <<>>
    ELSE IF i < Len(s) /\ s[i] = "{" /\ s[i + 1] = "}"
         THEN path \o WithPath(s, i + 2, path)
         ELSE <<s[i]>> \o WithPath(s, i + 1, path)

\* The chain out is the template with path in the place of every "{}" of
\* every argument, and nothing else changed.
ResolvedWith(template, out, path) ==
    /\ Len(out.commands) = Len(template.commands)
    /\ \A i \in 1..Len(template.commands) :
        /\ out.commands[i].command = template.commands[i].command
        /\ out.commands[i].proceed_if = template.commands[i].proceed_if
        /\ Len(out.commands[i].args) = Len(template.commands[i].args)
        /\ \A j \in 1..Len(template.commands[i].args) :
            out.commands[i].args[j] = WithPath(template.commands[i].args[j], 1, path)

\* C10: with substitution enabled the resolved chain is the template with the
\* trigger path in the place of every "{}" of every argument; the number of
\* commands, the executable names and the gating rules are the template's.
C10_SubstitutesTriggerPath ==
    Substituted /\ ~rebuild_config.verbatim =>
        ResolvedWith(rebuild_config, resolved, trigger)

\* What the code does instead: the path is first made a string, lossily.
SubstitutesLossyPath ==
    Substituted /\ ~rebuild_config.verbatim =>
        ResolvedWith(rebuild_config, resolved, to_string_lossy(trigger))

\* The string s holds the placeholder at least twice.
TwoPlaceholders(s) ==
    \E i, j \in 1..(Len(s) - 1) :
        /\ i + 1 < j
        /\ SubSeq(s, i, i + 1) = PLACEHOLDER
        /\ SubSeq(s, j, j + 1) = PLACEHOLDER

\* C11: with --verbatim the chain handed to rebuild_sync is the template, for
\* every rebuild, whatever its trigger path and the placeholders in the
\* arguments.
C11_VerbatimLeavesTemplate ==
    opt.verbatim =>
        \A k \in 1..Len(rebuilds) :
            rebuilds[k].call.commands = rebuild_config.commands

C11_Witness ==
    /\ opt.verbatim
    /\ Len(rebuilds) = 2
    /\ rebuilds[1].path = WatchedFile
    /\ rebuilds[2].path = <<"g", INVALID_BYTE>>
    /\ TwoPlaceholders(rebuild_config.commands[1].args[1])

\* The template as main parsed it at startup.
ParsedTemplate == RebuildConfig_new(opt.command, opt.verbatim)

\* C12: the template is never changed by a substitution: it stays the parsed
\* chain, so the chain of each rebuild is the parsed chain with that
\* rebuild's own path substituted (as a lossy string), and two rebuilds with
\* the same path get the same chain.
C12_TemplateNeverMutated ==
    /\ rebuild_config = ParsedTemplate
    /\ \A k \in 1..Len(rebuilds) :
        IF opt.verbatim
        THEN rebuilds[k].call.commands = ParsedTemplate.commands
        ELSE ResolvedWith(ParsedTemplate, rebuilds[k].call,
                          to_string_lossy(rebuilds[k].path))
    /\ \A j, k \in 1..Len(rebuilds) :
        rebuilds[j].path = rebuilds[k].path =>
            rebuilds[j].call.commands = rebuilds[k].call.commands

C12_Witness ==
    /\ ~opt.verbatim
    /\ Len(rebuilds) = 2
    /\ rebuilds[1].path = WatchedFile
    /\ rebuilds[2].path = WatchedFile
    /\ rebuilds[1].call.commands # rebuild_config.commands
    /\ rebuilds[2].call.commands = rebuilds[1].call.commands

(***************************************************************************)
(* main() as a whole (Spec): the options, the parse, the manager thread,   *)
(* the --do-while rebuild, the watcher, the event loop and the shutdown.   *)
(*                                                                         *)
(* main_pc: "parse", "manager" (line 219), "init" (222), "init_rebuild"    *)
(* (inside the synchronous rebuild_sync of line 224), "watcher_new" (229), *)
(* "watch" (237), "loop" (243), "loop_rebuild" (inside the synchronous     *)
(* rebuild_sync of line 245), "finish" (256), "join_manager" (260),        *)
(* "exit0" (main returned) and "exit1" (exit(1)).  Once the process has    *)
(* exited, none of its threads takes a step.                               *)
(***************************************************************************)
Exited == main_pc \in {"exit0", "exit1"}

Handle(id) == [type |-> "Handle", id |-> id]
Finish == [type |-> "Finish", id |-> 0]

\* A rebuild is in progress until its call of rebuild_sync is over.
InProgress(r) == r.call.phase # "done"

(***************************************************************************)
(* do_rebuild(rebuild_config.set_filename(path), opt.run_async,            *)
(* &thread_tx), called from main at `at` ("init" or "loop").  Async: the   *)
(* thread is spawned, its handle is sent, and main goes on.  Sync: main is *)
(* inside rebuild_sync until the chain is over.                            *)
(***************************************************************************)
\* A variant against which the properties are tested: sync mode does not wait for the chain.
do_rebuild_NoWait(path, at) ==
    LET config == RebuildConfig_set_filename(rebuild_config, path)
        id == Len(rebuilds) + 1
    IN  /\ rebuilds' = Append(rebuilds, [path |-> path,
                                         async |-> opt.run_async,
                                         call |-> rebuild_sync_enter(config)])
        /\ thread_chan' = IF opt.run_async
                          THEN Append(thread_chan, Handle(id))
                          ELSE thread_chan
        /\ main_pc' = IF at = "init" THEN "watcher_new" ELSE "loop"

\* A variant against which the properties are tested: async mode waits too.
do_rebuild_AlwaysWait(path, at) ==
    LET config == RebuildConfig_set_filename(rebuild_config, path)
        id == Len(rebuilds) + 1
    IN  /\ rebuilds' = Append(rebuilds, [path |-> path,
                                         async |-> opt.run_async,
                                         call |-> rebuild_sync_enter(config)])
        /\ thread_chan' = IF opt.run_async
                          THEN Append(thread_chan, Handle(id))
                          ELSE thread_chan
        /\ main_pc' = IF at = "init" THEN "init_rebuild" ELSE "loop_rebuild"

do_rebuild(path, at) ==
    LET config == RebuildConfig_set_filename(rebuild_config, path)
        id == Len(rebuilds) + 1
    IN  /\ rebuilds' = Append(rebuilds, [path |-> path,
                                         async |-> opt.run_async,
                                         call |-> rebuild_sync_enter(config)])
        /\ IF opt.run_async
           THEN /\ thread_chan' = Append(thread_chan, Handle(id))
                /\ main_pc' = IF at = "init" THEN "watcher_new" ELSE "loop"
           ELSE /\ thread_chan' = thread_chan
                /\ main_pc' = IF at = "init" THEN "init_rebuild" ELSE "loop_rebuild"

\* lines 219-220: channel() and prepare_manager_thread(thread_rx)
MainStartManager ==
    /\ main_pc = "manager"
    /\ manager' = [pc |-> "recv", handle |-> 0]
    /\ main_pc' = "init"
    /\ UNCHANGED <<opt, rebuild_config, chain_vars, rebuilds, thread_chan,
                   joined, rx, emitted>>

\* lines 222-225: the --do-while rebuild, with the watched filename as path
\* A variant against which the properties are tested: --do-while is not looked at.
MainInit_Always ==
    /\ main_pc = "init"
    /\ do_rebuild(opt.filename, "init")
    /\ UNCHANGED <<opt, rebuild_config, chain_vars, manager, joined, rx,
                   emitted>>

MainInit ==
    /\ main_pc = "init"
    /\ IF opt.init
       THEN do_rebuild(opt.filename, "init")
       ELSE /\ main_pc' = "watcher_new"
            /\ UNCHANGED <<rebuilds, thread_chan>>
    /\ UNCHANGED <<opt, rebuild_config, chain_vars, manager, joined, rx,
                   emitted>>

\* The synchronous rebuild_sync of do_rebuild is over: do_rebuild returns.
MainRebuildReturn ==
    /\ main_pc \in {"init_rebuild", "loop_rebuild"}
    /\ ~InProgress(rebuilds[Len(rebuilds)])
    /\ main_pc' = IF main_pc = "init_rebuild" THEN "watcher_new" ELSE "loop"
    /\ UNCHANGED <<opt, rebuild_config, chain_vars, main_vars>>

\* lines 227-235: RecommendedWatcher::new, or exit(1)
MainWatcherNew(ok) ==
    /\ main_pc = "watcher_new"
    /\ main_pc' = IF ok THEN "watch" ELSE "exit1"
    /\ UNCHANGED <<opt, rebuild_config, chain_vars, main_vars>>

\* lines 237-240: watcher.watch, or exit(1)
MainWatch(ok) ==
    /\ main_pc = "watch"
    /\ main_pc' = IF ok THEN "loop" ELSE "exit1"
    /\ UNCHANGED <<opt, rebuild_config, chain_vars, main_vars>>

(***************************************************************************)
(* The watcher, once the watch is established and until the process exits, *)
(* sends events: a write or a removal of the watched file, or an event of  *)
(* another kind (NoticeWrite, Create, Chmod, Rename, Rescan, Error).       *)
(***************************************************************************)
Watching == main_pc \in {"loop", "loop_rebuild", "finish", "join_manager"}

Events ==
    {[kind |-> k, path |-> WatchedFile] : k \in {"Write", "Remove", "Other"}}

WatcherSend(event) ==
    /\ Watching
    /\ emitted < MaxEvents
    /\ rx' = Append(rx, event)
    /\ emitted' = emitted + 1
    /\ UNCHANGED <<opt, main_pc, rebuild_config, chain_vars, rebuilds,
                   thread_chan, manager, joined>>

(***************************************************************************)
(* lines 242-254: one turn of the event loop on a received event.          *)
(***************************************************************************)
\* A variant against which the properties are tested: a remove event is ignored.
MainRecv_RemoveIgnored ==
    /\ main_pc = "loop"
    /\ rx # <<>>
    /\ rx' = Tail(rx)
    /\ IF Head(rx).kind = "Write"
       THEN do_rebuild(Head(rx).path, "loop")
       ELSE UNCHANGED <<main_pc, rebuilds, thread_chan>>
    /\ UNCHANGED <<opt, rebuild_config, chain_vars, manager, joined, emitted>>

\* A variant against which the properties are tested: an event of another kind
\* ends the loop as a remove event does.
MainRecv_OtherStops ==
    /\ main_pc = "loop"
    /\ rx # <<>>
    /\ rx' = Tail(rx)
    /\ IF Head(rx).kind = "Write"
       THEN do_rebuild(Head(rx).path, "loop")
       ELSE /\ main_pc' = "finish"
            /\ UNCHANGED <<rebuilds, thread_chan>>
    /\ UNCHANGED <<opt, rebuild_config, chain_vars, manager, joined, emitted>>

MainRecv ==
    /\ main_pc = "loop"
    /\ rx # <<>>
    /\ rx' = Tail(rx)
    /\ CASE Head(rx).kind = "Write" ->
              do_rebuild(Head(rx).path, "loop")
         [] Head(rx).kind = "Remove" ->
              /\ main_pc' = "finish"
              /\ UNCHANGED <<rebuilds, thread_chan>>
         [] OTHER ->
              UNCHANGED <<main_pc, rebuilds, thread_chan>>
    /\ UNCHANGED <<opt, rebuild_config, chain_vars, manager, joined, emitted>>

\* line 252: rx.recv() is Err (no event is left and the watcher has dropped
\* the sending end); a warning is printed and the loop goes on.
MainRecvErr ==
    /\ main_pc = "loop"
    /\ rx = <<>>
    /\ UNCHANGED vars

\* lines 256-259: thread_tx.send(ThreadHandleMessage::Finish)
\* A variant against which the properties are tested: Finish is sent in async
\* mode only.
MainSendFinish_AsyncOnly ==
    /\ main_pc = "finish"
    /\ thread_chan' = IF opt.run_async THEN Append(thread_chan, Finish)
                      ELSE thread_chan
    /\ main_pc' = "join_manager"
    /\ UNCHANGED <<opt, rebuild_config, chain_vars, rebuilds, manager, joined,
                   rx, emitted>>

MainSendFinish ==
    /\ main_pc = "finish"
    /\ thread_chan' = Append(thread_chan, Finish)
    /\ main_pc' = "join_manager"
    /\ UNCHANGED <<opt, rebuild_config, chain_vars, rebuilds, manager, joined,
                   rx, emitted>>

\* A variant against which the properties are tested: main returns without
\* joining the manager thread.
MainJoinManager_NoWait ==
    /\ main_pc = "join_manager"
    /\ main_pc' = "exit0"
    /\ UNCHANGED <<opt, rebuild_config, chain_vars, main_vars>>

\* line 260: manager_join_handle.join(), then main returns
MainJoinManager ==
    /\ main_pc = "join_manager"
    /\ manager.pc = "exited"
    /\ main_pc' = "exit0"
    /\ UNCHANGED <<opt, rebuild_config, chain_vars, main_vars>>

(***************************************************************************)
(* The thread of rebuild k (the main thread itself for a synchronous one): *)
(* Command::status() of the next command spawns the child or fails, and a  *)
(* spawned child exits with success or failure.                            *)
(***************************************************************************)
RebuildSpawn(k, spawned) ==
    /\ ~Exited
    /\ rebuilds[k].call.phase = "spawn"
    /\ rebuilds' = [rebuilds EXCEPT ![k].call = rebuild_sync_spawn(@, spawned)]
    /\ UNCHANGED <<opt, main_pc, rebuild_config, chain_vars, thread_chan,
                   manager, joined, rx, emitted>>

RebuildExit(k, outcome) ==
    /\ ~Exited
    /\ rebuilds[k].call.phase = "wait"
    /\ rebuilds' = [rebuilds EXCEPT ![k].call = rebuild_sync_exit(@, outcome)]
    /\ UNCHANGED <<opt, main_pc, rebuild_config, chain_vars, thread_chan,
                   manager, joined, rx, emitted>>

(***************************************************************************)
(* prepare_manager_thread, lines 176-182: receiver.recv() takes the next   *)
(* message; a Handle is joined, which waits for that thread to finish;     *)
(* Finish ends the loop.  (recv() cannot be Err: main keeps thread_tx.)    *)
(***************************************************************************)
\* A variant against which the properties are tested: the newest message is
\* taken first.
ManagerRecv_Newest ==
    /\ ~Exited
    /\ manager.pc = "recv"
    /\ thread_chan # <<>>
    /\ thread_chan' = SubSeq(thread_chan, 1, Len(thread_chan) - 1)
    /\ manager' = IF thread_chan[Len(thread_chan)].type = "Handle"
                  THEN [pc |-> "join", handle |-> thread_chan[Len(thread_chan)].id]
                  ELSE [pc |-> "exited", handle |-> 0]
    /\ UNCHANGED <<opt, main_pc, rebuild_config, chain_vars, rebuilds, joined,
                   rx, emitted>>

ManagerRecv ==
    /\ ~Exited
    /\ manager.pc = "recv"
    /\ thread_chan # <<>>
    /\ thread_chan' = Tail(thread_chan)
    /\ manager' = IF Head(thread_chan).type = "Handle"
                  THEN [pc |-> "join", handle |-> Head(thread_chan).id]
                  ELSE [pc |-> "exited", handle |-> 0]
    /\ UNCHANGED <<opt, main_pc, rebuild_config, chain_vars, rebuilds, joined,
                   rx, emitted>>

\* A variant against which the properties are tested: join does not wait for the thread.
ManagerJoin_NoWait ==
    /\ ~Exited
    /\ manager.pc = "join"
    /\ joined' = Append(joined, manager.handle)
    /\ manager' = [pc |-> "recv", handle |-> 0]
    /\ UNCHANGED <<opt, main_pc, rebuild_config, chain_vars, rebuilds,
                   thread_chan, rx, emitted>>

ManagerJoin ==
    /\ ~Exited
    /\ manager.pc = "join"
    /\ ~InProgress(rebuilds[manager.handle])
    /\ joined' = Append(joined, manager.handle)
    /\ manager' = [pc |-> "recv", handle |-> 0]
    /\ UNCHANGED <<opt, main_pc, rebuild_config, chain_vars, rebuilds,
                   thread_chan, rx, emitted>>

(***************************************************************************)
(* The runs of main: every combination of --verbatim, --do-while and       *)
(* --async, on a chain of one command, a chain of two, and a command line  *)
(* that does not parse.                                                    *)
(***************************************************************************)
MainCmdlines ==
    {<<<<"a">>, PLACEHOLDER>>,
     <<<<"a">>, ANDAND, <<"a">>, PLACEHOLDER>>,
     <<SEMI>>}

Init ==
    /\ opt \in [command: MainCmdlines,
                verbatim: BOOLEAN, init: BOOLEAN, run_async: BOOLEAN,
                filename: {WatchedFile}]
    /\ main_pc = "parse"
    /\ rebuild_config = NoConfig
    /\ trigger = NoPath
    /\ resolved = NoConfig
    /\ run = NoCall
    /\ log = <<>>
    /\ MainIdle

Next ==
    \/ MainParse
    \/ MainStartManager
    \/ MainInit
    \/ MainRebuildReturn
    \/ \E ok \in BOOLEAN : MainWatcherNew(ok)
    \/ \E ok \in BOOLEAN : MainWatch(ok)
    \/ \E event \in Events : WatcherSend(event)
    \/ MainRecv
    \/ MainRecvErr
    \/ MainSendFinish
    \/ MainJoinManager
    \/ \E k \in 1..Len(rebuilds), spawned \in BOOLEAN : RebuildSpawn(k, spawned)
    \/ \E k \in 1..Len(rebuilds), outcome \in {"success", "failure"} :
            RebuildExit(k, outcome)
    \/ ManagerRecv
    \/ ManagerJoin

Spec == Init /\ [][Next]_vars

(***************************************************************************)
(* Properties of main (Spec).                                              *)
(***************************************************************************)
\* The event loop has seen the remove event: main is past the loop.
Stopped == main_pc \in {"finish", "join_manager", "exit0"}

\* C1: in async mode main does not return after the remove event while a
\* rebuild it dispatched asynchronously (the --do-while one included) is
\* still running its chain.
C1_ShutdownWaitsForAsync ==
    main_pc = "exit0" =>
        \A k \in 1..Len(rebuilds) : rebuilds[k].async => ~InProgress(rebuilds[k])

C1_Witness ==
    /\ main_pc = "exit0"
    /\ opt.run_async
    /\ opt.init
    /\ Len(rebuilds) = 3
    /\ Len(rebuilds[3].call.commands) = 2
    /\ joined = <<1, 2, 3>>

\* C4: in sync mode a rebuild is dispatched, and an event is received, only
\* when every earlier rebuild is over: at most one chain is in progress, and
\* the rebuilds are over in the order of their write events.
C4_SyncOneAtATime ==
    ~opt.run_async =>
        /\ Cardinality({k \in 1..Len(rebuilds) : InProgress(rebuilds[k])}) <= 1
        /\ \A k \in 1..Len(rebuilds) :
            InProgress(rebuilds[k]) => k = Len(rebuilds)
        /\ main_pc = "loop" =>
            \A k \in 1..Len(rebuilds) : ~InProgress(rebuilds[k])

C4_Witness ==
    /\ ~opt.run_async
    /\ Len(rebuilds) = 3
    /\ InProgress(rebuilds[3])
    /\ rx # <<>>
    /\ Head(rx).kind = "Write"

\* C5: the loop leaves Watching when it receives a remove event; once stopped
\* it stays stopped, takes no further event from the channel and dispatches no
\* further rebuild.
C5_RemoveStopsForGood ==
    [][/\ (/\ main_pc = "loop"
           /\ rx # <<>>
           /\ Head(rx).kind = "Remove"
           /\ rx' = Tail(rx)) => main_pc' = "finish"
       /\ Stopped =>
            /\ Stopped'
            /\ Len(rebuilds') = Len(rebuilds)
            /\ Len(rx') >= Len(rx)]_vars

C5_Witness ==
    /\ main_pc = "exit0"
    /\ Len(rx) = 2
    /\ rx[1].kind = "Write"
    /\ rebuilds = <<>>

\* C13: in async mode main is never inside a rebuild: do_rebuild returns at
\* once, and the loop can take the next event whatever the earlier chains and
\* the manager are doing.  (The witness: three chains dispatched, the first
\* and the third in progress, the second already over.)
C13_AsyncDispatchReturns ==
    opt.run_async =>
        /\ main_pc \notin {"init_rebuild", "loop_rebuild"}
        /\ main_pc = "loop" /\ rx # <<>> => ENABLED MainRecv

C13_Witness ==
    /\ opt.run_async
    /\ main_pc = "loop"
    /\ rx # <<>>
    /\ Len(rebuilds) = 3
    /\ InProgress(rebuilds[1])
    /\ ~InProgress(rebuilds[2])
    /\ InProgress(rebuilds[3])

\* The events main has taken from rx.
Consumed == emitted - Len(rx)

\* C14: with --do-while one rebuild, with the watched filename as its path and
\* in the configured mode, is dispatched before any event is taken (in sync
\* mode it is over when main goes on); without the flag none is.  Every other
\* rebuild is dispatched by the loop taking a write event.
C14_DoWhileRunsOnceFirst ==
    /\ [](rebuild_config.ok /\ main_pc \notin {"parse", "manager", "init"} =>
            IF opt.init
            THEN /\ Len(rebuilds) >= 1
                 /\ rebuilds[1].path = opt.filename
                 /\ rebuilds[1].async = opt.run_async
                 /\ ~opt.run_async /\ main_pc # "init_rebuild" =>
                        ~InProgress(rebuilds[1])
                 /\ Consumed = 0 => Len(rebuilds) = 1
            ELSE Consumed = 0 => rebuilds = <<>>)
    /\ [][Len(rebuilds') > Len(rebuilds) =>
            \/ main_pc = "init" /\ opt.init /\ rebuilds = <<>>
            \/ /\ main_pc = "loop"
               /\ rx # <<>>
               /\ Head(rx).kind = "Write"
               /\ rx' = Tail(rx)]_vars

C14_Witness ==
    /\ opt.init
    /\ opt.run_async
    /\ main_pc = "watch"
    /\ Consumed = 0
    /\ Len(rebuilds) = 1
    /\ InProgress(rebuilds[1])

\* Main is in the event loop (at rx.recv(), or inside a synchronous rebuild).
InLoop == main_pc \in {"loop", "loop_rebuild"}

\* Main takes the event at the head of rx in this step.
Takes(kind) ==
    /\ main_pc = "loop"
    /\ rx # <<>>
    /\ Head(rx).kind = kind
    /\ rx' = Tail(rx)

\* C15: main leaves the loop only by taking a remove event.  Taking an event
\* of another kind dispatches nothing and stays in the loop (a receive error
\* changes nothing at all), and taking a write event dispatches a rebuild that
\* starts at the first command of the chain, however earlier rebuilds ended.
C15_OnlyRemoveLeavesLoop ==
    [][InLoop =>
        /\ ~InLoop' => Takes("Remove") /\ main_pc' = "finish"
        /\ Takes("Other") => main_pc' = "loop" /\ rebuilds' = rebuilds
        /\ Takes("Write") =>
            /\ InLoop'
            /\ Len(rebuilds') = Len(rebuilds) + 1
            /\ SubSeq(rebuilds', 1, Len(rebuilds)) = rebuilds
            /\ rebuilds'[Len(rebuilds')].call.i = 1
            /\ rebuilds'[Len(rebuilds')].call.phase = "spawn"
            /\ Len(rebuilds'[Len(rebuilds')].call.commands)
                 = Len(rebuild_config.commands)]_vars

C15_Witness ==
    /\ ~opt.run_async
    /\ ~opt.init
    /\ main_pc = "loop_rebuild"
    /\ Consumed = 3
    /\ Len(rebuilds) = 2
    /\ Len(rebuilds[1].call.commands) = 2
    /\ rebuilds[1].call.phase = "done"
    /\ rebuilds[1].call.i = 1
    /\ rebuilds[2].call.i = 2

\* C16: when the process has exited (end of main or exit(1)), no chain that
\* was started is left unfinished.
C16_NeverCancelled ==
    Exited => \A k \in 1..Len(rebuilds) : ~InProgress(rebuilds[k])

\* C17: when the command line does not parse, the process exits with status 1
\* and nothing else has happened: no rebuild, no manager thread, no message,
\* no watch.
C17_ParseErrorIsFatal ==
    main_pc # "parse" /\ ~rebuild_config.ok =>
        /\ main_pc = "exit1"
        /\ rebuilds = <<>>
        /\ manager = NoManager
        /\ thread_chan = <<>>
        /\ joined = <<>>
        /\ rx = <<>>
        /\ emitted = 0

C17_Witness ==
    /\ main_pc = "exit1"
    /\ ~rebuild_config.ok
    /\ rebuild_config.err = "EmptyCommand"
    /\ opt.init
    /\ opt.run_async

\* The rebuilds dispatched asynchronously: the handles sent to the manager.
AsyncIds == {k \in 1..Len(rebuilds) : rebuilds[k].async}

\* The handles the manager has taken from the channel.
Taken == Len(joined) + (IF manager.pc = "join" THEN 1 ELSE 0)

\* C18: the manager joins the handles in the order they were sent, each once
\* and only when its thread is over; while it waits for a thread it takes no
\* message; when it exits it has joined every handle sent.
C18_ReaperJoinsInOrder ==
    /\ [](/\ \A i \in 1..Len(joined) :
                joined[i] = i /\ i \in AsyncIds /\ ~InProgress(rebuilds[i])
          /\ manager.pc = "join" => manager.handle = Len(joined) + 1
          /\ \A i \in 1..Len(thread_chan) :
                thread_chan[i].type = "Handle" => thread_chan[i].id = Taken + i
          /\ manager.pc = "exited" => Len(joined) = Cardinality(AsyncIds))
    /\ [][manager.pc = "join" /\ InProgress(rebuilds[manager.handle]) =>
            /\ manager' = manager
            /\ joined' = joined
            /\ Len(thread_chan') >= Len(thread_chan)]_vars

C18_Witness ==
    /\ opt.run_async
    /\ joined = <<1>>
    /\ manager.pc = "join"
    /\ manager.handle = 2
    /\ InProgress(rebuilds[2])
    /\ Len(rebuilds) = 3
    /\ ~InProgress(rebuilds[3])
    /\ thread_chan = <<Handle(3)>>

\* Finish has been sent: it is in the channel, or the manager has taken it.
FinishSent ==
    \/ manager.pc = "exited"
    \/ \E i \in 1..Len(thread_chan) : thread_chan[i].type = "Finish"

\* C19: Finish is sent once, by main past the loop (in sync and in async
\* mode), and nothing is sent after it; when the manager has taken it the
\* manager has exited, the channel is empty and every handle sent is joined.
C19_FinishIsLast ==
    /\ FinishSent <=> main_pc \in {"join_manager", "exit0"}
    /\ FinishSent => Stopped
    /\ Cardinality({i \in 1..Len(thread_chan) : thread_chan[i].type = "Finish"})
         = (IF FinishSent /\ manager.pc # "exited" THEN 1 ELSE 0)
    /\ \A i \in 1..Len(thread_chan) :
         thread_chan[i].type = "Finish" => i = Len(thread_chan)
    /\ manager.pc = "exited" =>
         /\ thread_chan = <<>>
         /\ \A k \in AsyncIds : \E i \in 1..Len(joined) : joined[i] = k
         /\ Len(joined) = Cardinality(AsyncIds)

C19_Witness ==
    /\ opt.run_async
    /\ main_pc = "join_manager"
    /\ manager.pc = "exited"
    /\ Len(rebuilds) = 3
    /\ Len(joined) = 3

(***************************************************************************)
(* Spec with fair scheduling: the main thread, the manager thread and the  *)
(* rebuild threads each take a step they can take, and a spawned command   *)
(* exits.  Nothing is assumed of the watcher.                              *)
(***************************************************************************)
MainStep ==
    \/ MainParse
    \/ MainStartManager
    \/ MainInit
    \/ MainRebuildReturn
    \/ \E ok \in BOOLEAN : MainWatcherNew(ok)
    \/ \E ok \in BOOLEAN : MainWatch(ok)
    \/ MainRecv
    \/ MainSendFinish
    \/ MainJoinManager

ManagerStep == ManagerRecv \/ ManagerJoin

RebuildStep ==
    \E k \in 1..Len(rebuilds) :
        \/ \E spawned \in BOOLEAN : RebuildSpawn(k, spawned)
        \/ \E outcome \in {"success", "failure"} : RebuildExit(k, outcome)

FairSpec ==
    /\ Spec
    /\ WF_vars(MainStep)
    /\ WF_vars(ManagerStep)
    /\ WF_vars(RebuildStep)

\* C20: once main is past the loop, the manager takes Finish and exits and
\* main returns, in sync and in async mode; and as long as a chain dispatched
\* asynchronously is in progress neither happens: nothing but the end of that
\* chain lets the shutdown go on.
C20_ShutdownTerminates ==
    /\ Stopped ~> (main_pc = "exit0" /\ manager.pc = "exited")
    /\ [][(\E k \in AsyncIds : InProgress(rebuilds[k])) =>
            /\ manager'.pc # "exited"
            /\ main_pc' # "exit0"]_vars

C20_Witness ==
    /\ opt.run_async
    /\ main_pc = "join_manager"
    /\ manager.pc = "join"
    /\ manager.handle = 1
    /\ rebuilds[1].call.phase = "wait"
    /\ thread_chan = <<Handle(2), Finish>>

====
